---- MODULE Spec2Model ----
(***************************************************************************)
(* Model of the swap execution pipeline of the GlobalSwap interface:       *)
(* useSwapCallArguments / useSwapCallback / onSwap (hooks/useSwapCallback) *)
(* and the helpers of utils/index.ts it calls.                             *)
(*                                                                         *)
(* One onSwap invocation is modelled as a state machine whose steps are    *)
(* the resolutions and rejections of the promises the code awaits.         *)
(***************************************************************************)
EXTENDS Integers, Sequences, FiniteSets, TLC

VARIABLES
    props,          \* inputs of the hooks: trade, account, library, chainId, deadline, recipient
    window,         \* globals read by the code: window.ethereum, the configured pair
                    \* code hash, the module-level codeHashMap
    pc,             \* position of the onSwap invocation
    results,        \* per candidate: the state of its promise chain (Promise.all slots)
    trace,          \* history: the RPC requests issued and their replies, in order
    estimatedCalls, \* the array Promise.all resolved with
    selected,       \* successfulEstimation
    response,       \* the populated (unsigned) transaction
    transaction,    \* the transaction that is serialized, signed and broadcast
    accessList,     \* the access list generateAccessList returned
    caught,         \* the error swallowed by the testMode try/catch
    outcome,        \* how the invocation ended: returned value or thrown error
    probe           \* pure-function harness: function applied, input, output

vars == <<props, window, pc, results, trace, estimatedCalls, selected,
          response, transaction, accessList, caught, outcome, probe>>

(***************************************************************************)
(* Bounds of the model                                                     *)
(***************************************************************************)
MaxOutcomes == 4        \* longest outcome list given to the selector harness
MaxMarginInput == 60    \* largest small input given to calculateGasMargin
MaxInvocations == 3     \* generateAccessList invocations in a row in the helper harness
MaxIndex == 3           \* largest index given to getArrayItemKey

(***************************************************************************)
(* Values                                                                  *)
(***************************************************************************)
None == [kind |-> "none"]
Undefined == [kind |-> "undefined"]

WETH == "0xWETH"
DAI == "0xDAI"
TKN == "0xTKN"
ROUTER_ADDRESS == "0xROUTER"
ACCOUNT == "0xACCOUNT"
OTHER_RECIPIENT == "0xRECIPIENT"

\* the route of the trade as token addresses (wrapped ether stands for ether)
Paths == { <<WETH, DAI>>, <<WETH, TKN>>, <<DAI, WETH>>, <<DAI, TKN>> }

TradeTypes == {"EXACT_INPUT", "EXACT_OUTPUT"}

Trades ==
    { t \in [tradeType : TradeTypes, etherIn : BOOLEAN, etherOut : BOOLEAN, path : Paths] :
        /\ ~(t.etherIn /\ t.etherOut)
        /\ t.etherIn => t.path[1] = WETH
        /\ t.etherOut => t.path[2] = WETH }

\* gas estimates an estimateGas call may resolve with
GasEstimates == {21000, 100000, 190909}

\* revert reasons a callStatic call may reject with: "<contract>: <NAME>"
ReasonPrefixes == {"SwapRouterV2", "UniswapV2Router"}
ReasonNames == {"INSUFFICIENT_OUTPUT_AMOUNT", "EXCESSIVE_INPUT_AMOUNT", "TRANSFER_FAILED"}
Reasons == { p \o ": " \o n : p \in ReasonPrefixes, n \in ReasonNames }

\* errors an RPC request may reject with
RpcErrors ==
    { [code |-> 4001, message |-> "User rejected the request."],
      [code |-> -32603, message |-> "Internal JSON-RPC error."] }

Nonces == {"0x0", "0x1f"}
Signatures == {"0xSIG"}
Hashes == {"0xHASH"}

(***************************************************************************)
(* utils/index.ts                                                          *)
(***************************************************************************)
\* utils/isZero: /^0x0*$/ on the hex strings used here
isZero(hexNumberString) == hexNumberString \in {"0x", "0x0", "0x00"}

calculateGasMarginNoMargin(value) == (value * 10000) \div 10000

\* value.mul(BigNumber.from(10000).add(BigNumber.from(1000))).div(BigNumber.from(10000))
calculateGasMargin(value) == (value * (10000 + 1000)) \div 10000

\* ../constants (not part of the sources at hand): FACTORY_ADDRESS, ammAddresses
FACTORY_ADDRESS == "0xFACTORY"
PAIR_INIT_CODE_HASH == "0xINITCODEHASH"

\* strings ethers' BigNumber.from / web3's address encoder accept
AddressStrings == {WETH, DAI, TKN, ROUTER_ADDRESS, FACTORY_ADDRESS, ACCOUNT, OTHER_RECIPIENT}
IsBigNumberish(x) == x \notin {"x", "null", "undefined"}

\* the hash, kept symbolic: distinct inputs give distinct strings
solidityKeccak256(a, b) == "keccak(" \o a \o "," \o b \o ")"
solidityKeccak256_1(a) == "keccak(" \o a \o ")"

\* codeHashMap.set(wethAddress, wethCodeHash); codeHashMap.set(daiAddress, daiCodeHash):
\* the content of the module-level Map once utils/index.ts is loaded
codeHashMap == [a \in {WETH, DAI} |-> "codeHash(" \o a \o ")"]

\* codeHashMap.get(a) on the live Map, which window.codeHashMap holds
codeHashMapGet(a) ==
    IF a \in DOMAIN window.codeHashMap THEN window.codeHashMap[a] ELSE "undefined"

codeHashMapFilledOnMiss(map, a) ==
    IF a \in DOMAIN map THEN map
    ELSE [x \in DOMAIN map \cup {a} |-> IF x = a THEN "codeHash(" \o a \o ")" ELSE map[x]]

\* the Map after codeHashMap.get(a): a lookup stores nothing (the only
\* codeHashMap.set outside the module initialisation is commented out)
codeHashMapAfterGet(map, a) == map

getNestedStorageKeyOuterFirst(key1, key2, slotOfMap) ==
    LET firstLevelKey == solidityKeccak256(key2, slotOfMap)
    IN  solidityKeccak256(key1, firstLevelKey)

getNestedStorageKey(key1, key2, slotOfMap) ==
    LET firstLevelKey == solidityKeccak256(key1, slotOfMap)
    IN  solidityKeccak256(key2, firstLevelKey)

getArrayItemKey(index, slotOfArray) ==
    LET slot == solidityKeccak256_1(slotOfArray)
    IN  IF index > 0 THEN "toHexString(" \o slot \o "+" \o ToString(index) \o ")" ELSE slot

\* BigNumber.from(slot).add(increment) on big-endian bytes: BigNumber has no
\* fixed width, so a carry out of the first byte makes the number one byte longer
RECURSIVE BigNumberAdd(_, _)
BigNumberAdd(bytes, increment) ==
    IF bytes = << >> /\ increment = 0 THEN << >>
    ELSE LET last == IF bytes = << >> THEN 0 ELSE bytes[Len(bytes)]
             rest == IF bytes = << >> THEN << >> ELSE SubSeq(bytes, 1, Len(bytes) - 1)
             sum == last + increment
         IN  Append(BigNumberAdd(rest, sum \div 256), sum % 256)

\* BigNumber.toHexString(): the shortest whole-byte hex string of the number
RECURSIVE toHexString(_)
toHexString(bytes) ==
    IF Len(bytes) > 1 /\ bytes[1] = 0 THEN toHexString(Tail(bytes)) ELSE bytes

\* getArrayItemKey after its first line, on the bytes of slot = keccak256(slotOfArray)
getArrayItemKeyOfSlot(index, slot) ==
    IF index > 0 THEN toHexString(BigNumberAdd(slot, index)) ELSE slot

\* string comparison of the addresses (tokenA < tokenB): the position of the
\* address in the lexicographic order of the address strings
AddressRank(a) ==
    CASE a = ACCOUNT -> 1 [] a = DAI -> 2 [] a = FACTORY_ADDRESS -> 3
      [] a = OTHER_RECIPIENT -> 4 [] a = ROUTER_ADDRESS -> 5 [] a = TKN -> 6
      [] a = WETH -> 7 [] OTHER -> 0

getPairUnsorted(tokenA, tokenB, factory, codeHash) ==
    IF tokenA \notin AddressStrings \/ tokenB \notin AddressStrings
    THEN "null"
    ELSE IF codeHash = "undefined" THEN "undefined"
         ELSE "0x" \o "pair(" \o factory \o "," \o solidityKeccak256(tokenA, tokenB)
                  \o "," \o codeHash \o ")"

getPair(tokenA, tokenB, factory, codeHash) ==
    IF tokenA \notin AddressStrings \/ tokenB \notin AddressStrings
    THEN "null"                     \* encodeParameters throws, caught
    ELSE LET token0 == IF AddressRank(tokenA) < AddressRank(tokenB) THEN tokenA ELSE tokenB
             token1 == IF AddressRank(tokenA) < AddressRank(tokenB) THEN tokenB ELSE tokenA
             salt == solidityKeccak256(token0, token1)
         IN  IF codeHash = "undefined" THEN "undefined"
             ELSE "0x" \o "pair(" \o factory \o "," \o salt \o "," \o codeHash \o ")"

allPairLength == 1

\* TRUE when one of the solidityKeccak256 calls of generateAccessList throws
generateAccessListThrows(t) ==
    LET pairAddress == getPair(t.address1, t.address2, t.factoryAddress, t.codeHash)
    IN  \/ pairAddress \in {"null", "undefined"}
        \/ \E x \in {t.address1, t.address2, t.from, t.routerAddress} : ~IsBigNumberish(x)

generateAccessList(t) ==
    LET account == t.from
        pairAddress == getPair(t.address1, t.address2, t.factoryAddress, t.codeHash)
        zeroAddress == "0x0"
        balanceMapSlot == "0x1"
        senderBalanceKey == solidityKeccak256(account, balanceMapSlot)
        pairBalanceKey == solidityKeccak256(zeroAddress, balanceMapSlot)
        allowKeyOfSender == solidityKeccak256(account, "0x1")
        allowKeyOfSenderForPair == solidityKeccak256(t.routerAddress, allowKeyOfSender)
        token_0_1_key == getNestedStorageKey(t.address1, t.address2, "0x2")
        token_1_0_key == getNestedStorageKey(t.address2, t.address1, "0x2")
        allPairKey == getArrayItemKey(allPairLength, "0x3")
        tokenSlots(a) ==
            << solidityKeccak256(t.routerAddress, "0x3"),
               solidityKeccak256(pairAddress, "0x3"),
               allowKeyOfSenderForPair,
               solidityKeccak256(account, "0x0"),
               solidityKeccak256(pairAddress, "0x0"),
               codeHashMapGet(a) >>
    IN  << << pairAddress,
              << "0x00..00", "0x00..03", "0x00..05", "0x00..06", "0x00..07", "0x00..08",
                 "0x00..09", "0x00..0a", "0x00..0c", senderBalanceKey, pairBalanceKey,
                 "0xb2b8..8c23" >> >>,
           << t.address1, tokenSlots(t.address1) >>,
           << t.address2, tokenSlots(t.address2) >>,
           << t.factoryAddress,
              << "0x00..03", token_0_1_key, token_1_0_key, allPairKey, "0x3cee..7ca3" >> >> >>

(***************************************************************************)
(* useSwapCallArguments                                                    *)
(***************************************************************************)
Hex(v) == [kind |-> "hex", v |-> v]
Addr(a) == [kind |-> "address", v |-> a]
Path(p) == [kind |-> "path", v |-> p]

\* Router.swapCallParameters(trade, {feeOnTransfer, allowedSlippage, recipient, deadline})
swapCallParameters(trade, feeOnTransfer, recipient, deadline) ==
    LET to == Addr(recipient)
        amountIn == Hex("0x64")
        amountOut == Hex("0x5a")
        path == Path(trade.path)
        dl == Hex(deadline)
        sfx == IF feeOnTransfer THEN "SupportingFeeOnTransferTokens" ELSE ""
    IN  IF trade.tradeType = "EXACT_INPUT"
        THEN IF trade.etherIn
             THEN [methodName |-> "swapExactETHForTokens" \o sfx,
                   args |-> <<amountOut, path, to, dl>>, value |-> amountIn.v]
             ELSE IF trade.etherOut
             THEN [methodName |-> "swapExactTokensForETH" \o sfx,
                   args |-> <<amountIn, amountOut, path, to, dl>>, value |-> "0x0"]
             ELSE [methodName |-> "swapExactTokensForTokens" \o sfx,
                   args |-> <<amountIn, amountOut, path, to, dl>>, value |-> "0x0"]
        ELSE IF trade.etherIn
             THEN [methodName |-> "swapETHForExactTokens",
                   args |-> <<amountOut, path, to, dl>>, value |-> amountIn.v]
             ELSE IF trade.etherOut
             THEN [methodName |-> "swapTokensForExactETH",
                   args |-> <<amountOut, amountIn, path, to, dl>>, value |-> "0x0"]
             ELSE [methodName |-> "swapTokensForExactTokens",
                   args |-> <<amountOut, amountIn, path, to, dl>>, value |-> "0x0"]

\* const recipient = recipientAddressOrName === null ? account : recipientAddress
Recipient(p) == IF p.recipientAddressOrName = None THEN p.account ELSE p.recipientAddress

swapMethodsAlwaysBoth(trade, recipient, deadline) ==
    << swapCallParameters(trade, FALSE, recipient.v, deadline.v),
       swapCallParameters(trade, TRUE, recipient.v, deadline.v) >>

\* the swapMethods array built by the two pushes
swapMethods(trade, recipient, deadline) ==
    << swapCallParameters(trade, FALSE, recipient.v, deadline.v) >>
    \o (IF trade.tradeType = "EXACT_INPUT"
        THEN << swapCallParameters(trade, TRUE, recipient.v, deadline.v) >>
        ELSE << >>)

useSwapCallArguments(p) ==
    IF \/ p.trade = None \/ Recipient(p) = None \/ ~p.library
       \/ p.account = None \/ ~p.chainId \/ p.deadline = None
    THEN << >>
    ELSE LET methods == swapMethods(p.trade, Recipient(p), p.deadline)
         IN  [i \in 1..Len(methods) |-> [parameters |-> methods[i], contract |-> ROUTER_ADDRESS]]

swapCalls == useSwapCallArguments(props)

(***************************************************************************)
(* useSwapCallback                                                         *)
(***************************************************************************)
\* the state useSwapCallback returns; the callback is offered only when VALID
SwapCallbackState(p) ==
    IF p.trade = None \/ ~p.library \/ p.account = None \/ ~p.chainId
    THEN "INVALID"
    ELSE IF Recipient(p) = None
         THEN IF p.recipientAddressOrName # None THEN "INVALID" ELSE "LOADING"
         ELSE "VALID"

\* const options = !value || isZero(value) ? {} : { value }
Options(value) ==
    IF value = "" \/ isZero(value) THEN [fields |-> {}]
    ELSE [fields |-> {"value"}, value |-> value]

\* a request sent to the node or the wallet for candidate ix (0: none)
ContractRequest(method, ix, call) ==
    [ev |-> "request", method |-> method, ix |-> ix,
     methodName |-> call.parameters.methodName,
     args |-> call.parameters.args,
     options |-> Options(call.parameters.value)]

Resolved(method, ix, value) == [ev |-> "resolve", method |-> method, ix |-> ix, value |-> value]
Rejected(method, ix, error) == [ev |-> "reject", method |-> method, ix |-> ix, error |-> error]

IsPending(r) == "pending" \in DOMAIN r
IsSuccess(el) == "gasEstimate" \in DOMAIN el
IsFailure(el) == "error" \in DOMAIN el

Error(message) == [message |-> message]

SlippageMessage ==
    "This transaction will not succeed either due to price movement or fee on transfer. Try increasing your slippage tolerance."

GenericMessage(reason) ==
    "The transaction cannot succeed due to error: " \o reason
        \o ". This is probably an issue with one of the tokens you are swapping."

errorMessageBySuffix(reason) ==
    IF \E p \in ReasonPrefixes :
          reason \in {p \o ": INSUFFICIENT_OUTPUT_AMOUNT", p \o ": EXCESSIVE_INPUT_AMOUNT"}
    THEN SlippageMessage
    ELSE GenericMessage(reason)

\* switch (callError.reason)
errorMessage(reason) ==
    CASE reason = "SwapRouterV2: INSUFFICIENT_OUTPUT_AMOUNT" -> SlippageMessage
      [] reason = "SwapRouterV2: EXCESSIVE_INPUT_AMOUNT" -> SlippageMessage
      [] OTHER -> GenericMessage(reason)

Idle ==
    /\ pc = "idle"
    /\ results = << >>
    /\ trace = << >>
    /\ estimatedCalls = << >>
    /\ selected = None
    /\ response = None
    /\ transaction = None
    /\ accessList = << >>
    /\ caught = None
    /\ outcome = [kind |-> "pending"]

PropsSet ==
    [ trade : {None} \cup Trades,
      account : {None, Addr(ACCOUNT)},
      library : BOOLEAN,
      chainId : BOOLEAN,
      deadline : {None, Hex("0x6543")},
      recipientAddressOrName : {None, [kind |-> "name", v |-> "alice.eth"]},
      recipientAddress : {None, Addr(OTHER_RECIPIENT)} ]

WindowSet ==
    [ ethereum : BOOLEAN, codeHash : {"undefined", PAIR_INIT_CODE_HASH},
      codeHashMap : {codeHashMap} ]

Init ==
    /\ props \in PropsSet
    /\ window \in WindowSet
    /\ Idle
    /\ probe = None

\* onSwap is called: the map over swapCalls issues one estimateGas per candidate
onSwap ==
    /\ pc = "idle"
    /\ SwapCallbackState(props) = "VALID"
    /\ pc' = "estimating"
    /\ results' = [i \in 1..Len(swapCalls) |-> [pending |-> "estimateGas"]]
    /\ trace' = trace \o [i \in 1..Len(swapCalls) |->
                              ContractRequest("estimateGas", i, swapCalls[i])]
    /\ UNCHANGED <<props, window, estimatedCalls, selected, response,
                   transaction, accessList, caught, outcome, probe>>

\* .then((gasEstimate) => ({ call, gasEstimate }))
estimateGasResolve(i, gasEstimate) ==
    /\ pc = "estimating"
    /\ i \in DOMAIN results
    /\ results[i] = [pending |-> "estimateGas"]
    /\ results' = [results EXCEPT ![i] = [call |-> swapCalls[i], gasEstimate |-> gasEstimate]]
    /\ trace' = Append(trace, Resolved("estimateGas", i, gasEstimate))
    /\ UNCHANGED <<props, window, pc, estimatedCalls, selected, response,
                   transaction, accessList, caught, outcome, probe>>

estimateGasRejectRetry(i) ==
    /\ pc = "estimating"
    /\ i \in DOMAIN results
    /\ results[i] = [pending |-> "estimateGas"]
    /\ trace' = trace \o << Rejected("estimateGas", i, Error("gas required exceeds allowance")),
                            ContractRequest("estimateGas", i, swapCalls[i]) >>
    /\ UNCHANGED <<props, window, pc, results, estimatedCalls, selected, response,
                   transaction, accessList, caught, outcome, probe>>

\* .catch((gasError) => contract.callStatic[methodName](...args, options) ...
estimateGasReject(i) ==
    /\ pc = "estimating"
    /\ i \in DOMAIN results
    /\ results[i] = [pending |-> "estimateGas"]
    /\ results' = [results EXCEPT ![i] = [pending |-> "callStatic"]]
    /\ trace' = trace \o << Rejected("estimateGas", i, Error("gas required exceeds allowance")),
                            ContractRequest("callStatic", i, swapCalls[i]) >>
    /\ UNCHANGED <<props, window, pc, estimatedCalls, selected, response,
                   transaction, accessList, caught, outcome, probe>>

trustSimulatedCall(call) == [call |-> call, gasEstimate |-> 21000]

\* { call, error: new Error('Unexpected issue with estimating the gas. Please try again.') }
unexpectedSuccessfulCall(call) ==
    [call |-> call,
     error |-> Error("Unexpected issue with estimating the gas. Please try again.")]

\* callStatic .then((result) => ...)
callStaticResolve(i) ==
    /\ pc = "estimating"
    /\ i \in DOMAIN results
    /\ results[i] = [pending |-> "callStatic"]
    /\ results' = [results EXCEPT ![i] = unexpectedSuccessfulCall(swapCalls[i])]
    /\ trace' = Append(trace, [ev |-> "resolve", method |-> "callStatic", ix |-> i,
                                result |-> "0x"])
    /\ UNCHANGED <<props, window, pc, estimatedCalls, selected, response,
                   transaction, accessList, caught, outcome, probe>>

\* callStatic .catch((callError) => ({ call, error: new Error(errorMessage) }))
callStaticReject(i, reason) ==
    /\ pc = "estimating"
    /\ i \in DOMAIN results
    /\ results[i] = [pending |-> "callStatic"]
    /\ results' = [results EXCEPT ![i] =
            [call |-> swapCalls[i], error |-> Error(errorMessage(reason))]]
    /\ trace' = Append(trace, Rejected("callStatic", i, [reason |-> reason]))
    /\ UNCHANGED <<props, window, pc, estimatedCalls, selected, response,
                   transaction, accessList, caught, outcome, probe>>

(***************************************************************************)
(* Candidate selection                                                     *)
(***************************************************************************)
\* the predicate given to find:
\*   'gasEstimate' in el && (ix === list.length - 1 || 'gasEstimate' in list[ix + 1])
\* (ix is 1-based here, so the last index is Len(list))
findPredicate(list, ix) ==
    IsSuccess(list[ix]) /\ (ix = Len(list) \/ IsSuccess(list[ix + 1]))

RECURSIVE findFrom(_, _)
\* Array.prototype.find: the first index from ix on whose element satisfies the
\* predicate, 0 (undefined) when none does
findFrom(list, ix) ==
    IF ix > Len(list) THEN 0
    ELSE IF findPredicate(list, ix) THEN ix
    ELSE findFrom(list, ix + 1)

firstSuccessOnly(list) ==
    IF \E i \in 1..Len(list) : IsSuccess(list[i])
    THEN CHOOSE i \in 1..Len(list) :
            IsSuccess(list[i]) /\ \A j \in 1..(i - 1) : ~IsSuccess(list[j])
    ELSE 0

\* const successfulEstimation = estimatedCalls.find(...), as an index
successfulEstimation(list) == findFrom(list, 1)

firstErrorCall(list) ==
    LET errorCalls == SelectSeq(list, IsFailure)
    IN  IF Len(errorCalls) > 0 THEN errorCalls[1].error
        ELSE Error("Unexpected error. Please contact support: none of the calls threw an error")

firstCallError(list) ==
    IF list # << >> /\ IsFailure(list[1]) THEN list[1].error
    ELSE Error("Unexpected error. Please contact support: none of the calls threw an error")

\* the error thrown when no estimation is selected
noEstimationError(list) ==
    LET errorCalls == SelectSeq(list, IsFailure)
    IN  IF Len(errorCalls) > 0 THEN errorCalls[Len(errorCalls)].error
        ELSE Error("Unexpected error. Please contact support: none of the calls threw an error")

\* the overrides object given to populateTransaction
Overrides(value, gasEstimate, account) ==
    IF value # "" /\ ~isZero(value)
    THEN [gasLimit |-> calculateGasMargin(gasEstimate), value |-> value, from |-> account]
    ELSE [gasLimit |-> calculateGasMargin(gasEstimate), from |-> account]

PopulateRequestLastEstimate(estimation, account) ==
    [ev |-> "request", method |-> "populateTransaction", ix |-> 0,
     methodName |-> estimation.call.parameters.methodName,
     args |-> estimation.call.parameters.args,
     overrides |-> Overrides(estimation.call.parameters.value,
                             results[Len(results)].gasEstimate, account)]

\* contract.populateTransaction[methodName](...args, { gasLimit, value?, from })
PopulateRequest(estimation, account) ==
    [ev |-> "request", method |-> "populateTransaction", ix |-> 0,
     methodName |-> estimation.call.parameters.methodName,
     args |-> estimation.call.parameters.args,
     overrides |-> Overrides(estimation.call.parameters.value, estimation.gasEstimate, account)]

joinOnFirstSettled == \E i \in DOMAIN results : ~IsPending(results[i])

\* Promise.all resolves when every promise of the array has resolved
allSettled == \A i \in DOMAIN results : ~IsPending(results[i])

\* await Promise.all(...) resumes: selection, then either the throw or populateTransaction
promiseAllResolve ==
    /\ pc = "estimating"
    /\ allSettled
    /\ estimatedCalls' = results
    /\ LET ix == successfulEstimation(results)
       IN  IF ix = 0
           THEN /\ selected' = Undefined
                /\ outcome' = [kind |-> "threw", error |-> noEstimationError(results)]
                /\ pc' = "done"
                /\ UNCHANGED trace
           ELSE /\ selected' = results[ix]
                /\ trace' = Append(trace, PopulateRequest(results[ix], props.account.v))
                /\ pc' = "populating"
                /\ UNCHANGED outcome
    /\ UNCHANGED <<props, window, results, response, transaction, accessList,
                   caught, probe>>

(***************************************************************************)
(* Transaction assembly, signing and broadcast (the .then / .catch chain)  *)
(***************************************************************************)
\* what contract.populateTransaction[methodName](...args, overrides) resolves with
PopulatedTransaction(req) ==
    LET base == [to |-> ROUTER_ADDRESS,
                 data |-> [methodName |-> req.methodName, args |-> req.args],
                 gasLimit |-> req.overrides.gasLimit,
                 from |-> req.overrides.from]
    IN  IF "value" \in DOMAIN req.overrides
        THEN [to |-> base.to, data |-> base.data, gasLimit |-> base.gasLimit,
              from |-> base.from, value |-> req.overrides.value]
        ELSE base

\* args[1][k] of the code: element k of a path, character k of a hex string
ElementAt(arg, k) ==
    IF arg.kind = "path" THEN arg.v[k + 1]
    ELSE IF k = 0 THEN "0" ELSE "x"

\* the ammAddresses object built from the arguments and the populated transaction
TradeAddresses(args, from) ==
    [factoryAddress |-> FACTORY_ADDRESS,
     routerAddress |-> ROUTER_ADDRESS,
     address1 |-> ElementAt(args[2], 0),
     address2 |-> ElementAt(args[2], 1),
     from |-> from,
     codeHash |-> window.codeHash]

\* parseInt(nonce, 16)
parseInt16(nonce) == CASE nonce = "0x0" -> 0 [] nonce = "0x1f" -> 31

TransactionStaleNonce(resp, list, nonce) ==
    [to |-> resp.to, data |-> resp.data, value |-> resp.value,
     chainId |-> 8080, gasPrice |-> "11000000000", gasLimit |-> 300000,
     nonce |-> 0, type |-> 1, accessList |-> list]

\* const transaction = { ...response, value, chainId: 8080, gasPrice, gasLimit: 300000,
\*                       nonce: parseInt(nonce, 16), type: 1, accessList }; delete transaction.from
Transaction(resp, list, nonce) ==
    [to |-> resp.to, data |-> resp.data, value |-> resp.value,
     chainId |-> 8080, gasPrice |-> "11000000000", gasLimit |-> 300000,
     nonce |-> parseInt16(nonce), type |-> 1, accessList |-> list]

\* ethers.utils.serializeTransaction rejects an access list with a key that is no 32-byte hex string
serializeTransactionThrows(tx) ==
    \E e \in 1..Len(tx.accessList) :
        \/ tx.accessList[e][1] \in {"null", "undefined"}
        \/ \E k \in 1..Len(tx.accessList[e][2]) : tx.accessList[e][2][k] = "undefined"

WalletRequest(method, params) ==
    [ev |-> "request", method |-> method, ix |-> 0, params |-> params]

Returned(value) == [kind |-> "returned", value |-> value]
Threw(error) == [kind |-> "threw", error |-> error]

swallowAndHang(e) ==
    /\ caught' = e
    /\ pc' = "hung"
    /\ UNCHANGED outcome

\* catch (e) { console.log('TEST MODE ERROR', e) } ... return response.hash
swallow(e) ==
    /\ caught' = e
    /\ outcome' = Returned(Undefined)
    /\ pc' = "done"

\* populateTransaction resolved: the .then handler runs up to the nonce request
populateTransactionResolve ==
    /\ pc = "populating"
    /\ LET req == PopulateRequest(selected, props.account.v)
           resp == PopulatedTransaction(req)
           t == TradeAddresses(req.args, resp.from)
       IN  /\ response' = resp
           /\ IF ~window.ethereum
              THEN /\ outcome' = Returned(Undefined)
                   /\ pc' = "done"
                   /\ trace' = Append(trace, Resolved("populateTransaction", 0, resp))
                   /\ UNCHANGED <<accessList, caught>>
              ELSE IF generateAccessListThrows(t)
              THEN /\ swallow(Error("invalid BigNumber value"))
                   /\ trace' = Append(trace, Resolved("populateTransaction", 0, resp))
                   /\ UNCHANGED accessList
              ELSE IF "value" \notin DOMAIN resp
              THEN /\ accessList' = generateAccessList(t)
                   /\ swallow(Error("Cannot read property 'toString' of undefined"))
                   /\ trace' = Append(trace, Resolved("populateTransaction", 0, resp))
              ELSE /\ accessList' = generateAccessList(t)
                   /\ trace' = trace \o
                          << Resolved("populateTransaction", 0, resp),
                             WalletRequest("eth_getTransactionCount", <<resp.from>>) >>
                   /\ pc' = "nonce"
                   /\ UNCHANGED <<caught, outcome>>
    /\ UNCHANGED <<props, window, results, estimatedCalls, selected,
                   transaction, probe>>

\* .catch((error) => { if (error?.code === 4001) throw ...; else throw ... })
rethrow(error) ==
    IF "code" \in DOMAIN error /\ error.code = 4001
    THEN Threw(Error("Transaction rejected."))
    ELSE Threw(Error("Swap failed: " \o error.message))

populateTransactionReject(error) ==
    /\ pc = "populating"
    /\ outcome' = rethrow(error)
    /\ pc' = "done"
    /\ trace' = Append(trace, Rejected("populateTransaction", 0, error))
    /\ UNCHANGED <<props, window, results, estimatedCalls, selected,
                   response, transaction, accessList, caught, probe>>

\* eth_getTransactionCount resolved: the transaction is built and serialized
nonceResolve(nonce) ==
    /\ pc = "nonce"
    /\ transaction' = Transaction(response, accessList, nonce)
    /\ IF serializeTransactionThrows(transaction')
       THEN /\ swallow(Error("invalid access list"))
            /\ trace' = Append(trace, Resolved("eth_getTransactionCount", 0, nonce))
       ELSE /\ trace' = trace \o << Resolved("eth_getTransactionCount", 0, nonce),
                                    WalletRequest("eth_requestAccounts", << >>) >>
            /\ pc' = "accounts"
            /\ UNCHANGED <<caught, outcome>>
    /\ UNCHANGED <<props, window, results, estimatedCalls, selected,
                   response, accessList, probe>>

\* the request awaited at position `at` of the try block
AwaitedMethod(at) ==
    CASE at = "nonce" -> "eth_getTransactionCount"
      [] at = "accounts" -> "eth_requestAccounts"
      [] at = "signing" -> "eth_sign"
      [] at = "broadcasting" -> "sendTransaction"

\* an awaited wallet or provider request rejected inside the try block
requestReject(at, error) ==
    /\ pc = at
    /\ swallow(error)
    /\ trace' = Append(trace, Rejected(AwaitedMethod(at), 0, error))
    /\ UNCHANGED <<props, window, results, estimatedCalls, selected,
                   response, transaction, accessList, probe>>

nonceReject(error) == requestReject("nonce", error)

\* eth_requestAccounts resolved: eth_sign is requested for keccak256(serialized)
accountsResolve ==
    /\ pc = "accounts"
    /\ trace' = trace \o
           << Resolved("eth_requestAccounts", 0, <<ACCOUNT>>),
              WalletRequest("eth_sign", <<"selectedAddress", [keccak256 |-> transaction]>>) >>
    /\ pc' = "signing"
    /\ UNCHANGED <<props, window, results, estimatedCalls, selected,
                   response, transaction, accessList, caught, outcome, probe>>

accountsReject(error) == requestReject("accounts", error)

\* eth_sign resolved: the signed transaction is serialized and sent
signResolve(signature) ==
    /\ pc = "signing"
    /\ trace' = trace \o
           << Resolved("eth_sign", 0, signature),
              WalletRequest("sendTransaction",
                            <<[transaction |-> transaction, signature |-> signature]>>) >>
    /\ pc' = "broadcasting"
    /\ UNCHANGED <<props, window, results, estimatedCalls, selected,
                   response, transaction, accessList, caught, outcome, probe>>

signReject(error) == requestReject("signing", error)

\* provider.sendTransaction resolved: response.hash = hash; return response.hash
sendTransactionResolve(hash) ==
    /\ pc = "broadcasting"
    /\ outcome' = Returned([kind |-> "hash", v |-> hash])
    /\ trace' = Append(trace, Resolved("sendTransaction", 0, hash))
    /\ pc' = "done"
    /\ UNCHANGED <<props, window, results, estimatedCalls, selected,
                   response, transaction, accessList, caught, probe>>

sendTransactionReject(error) == requestReject("broadcasting", error)

Next ==
    \/ onSwap
    \/ \E i \in 1..2, g \in GasEstimates : estimateGasResolve(i, g)
    \/ \E i \in 1..2 : estimateGasReject(i)
    \/ \E i \in 1..2 : callStaticResolve(i)
    \/ \E i \in 1..2, reason \in Reasons : callStaticReject(i, reason)
    \/ promiseAllResolve
    \/ populateTransactionResolve
    \/ \E e \in RpcErrors : populateTransactionReject(e)
    \/ \E n \in Nonces : nonceResolve(n)
    \/ \E e \in RpcErrors : nonceReject(e)
    \/ accountsResolve
    \/ \E e \in RpcErrors : accountsReject(e)
    \/ \E sig \in Signatures : signResolve(sig)
    \/ \E e \in RpcErrors : signReject(e)
    \/ \E h \in Hashes : sendTransactionResolve(h)
    \/ \E e \in RpcErrors : sendTransactionReject(e)

Spec == Init /\ [][Next]_vars

(***************************************************************************)
(* Fairness: every request that was issued is answered, by a resolution or *)
(* a rejection, and a continuation whose promise has settled is run by the *)
(* event loop. Calling onSwap is left to the user: no fairness on it.      *)
(***************************************************************************)
estimateGasSettle(i) ==
    \/ \E g \in GasEstimates : estimateGasResolve(i, g)
    \/ estimateGasReject(i)

callStaticSettle(i) ==
    \/ callStaticResolve(i)
    \/ \E reason \in Reasons : callStaticReject(i, reason)

populateTransactionSettle ==
    \/ populateTransactionResolve
    \/ \E e \in RpcErrors : populateTransactionReject(e)

nonceSettle == (\E n \in Nonces : nonceResolve(n)) \/ (\E e \in RpcErrors : nonceReject(e))
accountsSettle == accountsResolve \/ (\E e \in RpcErrors : accountsReject(e))
signSettle == (\E sig \in Signatures : signResolve(sig)) \/ (\E e \in RpcErrors : signReject(e))
sendTransactionSettle ==
    (\E h \in Hashes : sendTransactionResolve(h)) \/ (\E e \in RpcErrors : sendTransactionReject(e))

Fairness ==
    /\ \A i \in 1..2 : WF_vars(estimateGasSettle(i)) /\ WF_vars(callStaticSettle(i))
    /\ WF_vars(promiseAllResolve)
    /\ WF_vars(populateTransactionSettle)
    /\ WF_vars(nonceSettle)
    /\ WF_vars(accountsSettle)
    /\ WF_vars(signSettle)
    /\ WF_vars(sendTransactionSettle)

SpecFair == Spec /\ Fairness

(***************************************************************************)
(* Harness for the pure functions: the selector over outcome lists of any  *)
(* length up to MaxOutcomes, and calculateGasMargin over its inputs        *)
(***************************************************************************)
ProbeProps ==
    [trade |-> [tradeType |-> "EXACT_INPUT", etherIn |-> TRUE, etherOut |-> FALSE,
                path |-> <<WETH, DAI>>],
     account |-> Addr(ACCOUNT), library |-> TRUE, chainId |-> TRUE,
     deadline |-> Hex("0x6543"), recipientAddressOrName |-> None,
     recipientAddress |-> None]

ProbeCall == useSwapCallArguments(ProbeProps)[1]

\* one estimation outcome per candidate: Success{estimate} or Failure{message}
Outcomes ==
    { [call |-> ProbeCall, gasEstimate |-> g] : g \in {100, 120} }
    \cup { [call |-> ProbeCall, error |-> Error(errorMessage(r))] :
             r \in {"SwapRouterV2: INSUFFICIENT_OUTPUT_AMOUNT"} }

OutcomeLists == UNION { [1..n -> Outcomes] : n \in 0..MaxOutcomes }

MarginInputs == 0..MaxMarginInput \cup {99999, 100000, 100001}

InitFn ==
    /\ props = ProbeProps
    /\ window = [ethereum |-> TRUE, codeHash |-> PAIR_INIT_CODE_HASH,
                 codeHashMap |-> codeHashMap]
    /\ Idle
    /\ probe = None

probeFind(list) ==
    /\ probe' = [fn |-> "find", in |-> list, out |-> successfulEstimation(list),
                 error |-> noEstimationError(list)]
    /\ UNCHANGED <<props, window, pc, results, trace, estimatedCalls, selected,
                   response, transaction, accessList, caught, outcome>>

probeGasMargin(value) ==
    /\ probe' = [fn |-> "calculateGasMargin", in |-> value, out |-> calculateGasMargin(value)]
    /\ UNCHANGED <<props, window, pc, results, trace, estimatedCalls, selected,
                   response, transaction, accessList, caught, outcome>>

NextFn ==
    \/ \E list \in OutcomeLists : probeFind(list)
    \/ \E value \in MarginInputs : probeGasMargin(value)

SpecFn == InitFn /\ [][NextFn]_vars

(***************************************************************************)
(* Harness for the helpers of utils/index.ts: generateAccessList invoked   *)
(* up to MaxInvocations times in a row, getPair and getNestedStorageKey on *)
(* a pair of keys in both orders, getArrayItemKey on the bytes of a hash   *)
(***************************************************************************)
Tokens == {WETH, DAI, TKN}

\* the ammAddresses object for a pair of tokens
AmmAddresses(address1, address2) ==
    [factoryAddress |-> FACTORY_ADDRESS,
     routerAddress |-> ROUTER_ADDRESS,
     address1 |-> address1,
     address2 |-> address2,
     from |-> ACCOUNT,
     codeHash |-> window.codeHash]

\* values keccak256 may return, as 32 big-endian bytes: all bits set, a zero
\* first byte, a carry through the last byte, the hash of slot 3
SlotHashes ==
    { [i \in 1..32 |-> 255],
      [i \in 1..32 |-> IF i = 1 THEN 0 ELSE 171],
      [i \in 1..32 |-> IF i = 32 THEN 255 ELSE 18],
      [i \in 1..32 |-> IF i = 1 THEN 194 ELSE 87] }

InitUtil ==
    /\ props = ProbeProps
    /\ window \in { w \in WindowSet : w.ethereum }
    /\ Idle
    /\ probe = None

Invocations == IF "calls" \in DOMAIN probe THEN probe.calls ELSE << >>

\* await generateAccessList(ammAddresses): returns the list or rejects
probeGenerateAccessList(t) ==
    /\ Len(Invocations) < MaxInvocations
    /\ probe' = [fn |-> "generateAccessList",
                 calls |-> Append(Invocations,
                     [in |-> t,
                      threw |-> generateAccessListThrows(t),
                      out |-> IF generateAccessListThrows(t) THEN << >>
                              ELSE generateAccessList(t)])]
    /\ window' = [window EXCEPT !.codeHashMap =
                      codeHashMapAfterGet(codeHashMapAfterGet(@, t.address1), t.address2)]
    /\ UNCHANGED <<props, pc, results, trace, estimatedCalls, selected,
                   response, transaction, accessList, caught, outcome>>

probeGetPair(tokenA, tokenB, codeHash) ==
    /\ probe' = [fn |-> "getPair", in |-> <<tokenA, tokenB, FACTORY_ADDRESS, codeHash>>,
                 out |-> getPair(tokenA, tokenB, FACTORY_ADDRESS, codeHash),
                 swapped |-> getPair(tokenB, tokenA, FACTORY_ADDRESS, codeHash)]
    /\ UNCHANGED <<props, window, pc, results, trace, estimatedCalls, selected,
                   response, transaction, accessList, caught, outcome>>

probeGetNestedStorageKey(key1, key2, slotOfMap) ==
    /\ probe' = [fn |-> "getNestedStorageKey", in |-> <<key1, key2, slotOfMap>>,
                 out |-> getNestedStorageKey(key1, key2, slotOfMap),
                 swapped |-> getNestedStorageKey(key2, key1, slotOfMap)]
    /\ UNCHANGED <<props, window, pc, results, trace, estimatedCalls, selected,
                   response, transaction, accessList, caught, outcome>>

probeGetArrayItemKey(index, slot) ==
    /\ probe' = [fn |-> "getArrayItemKey", in |-> [index |-> index, slot |-> slot],
                 out |-> getArrayItemKeyOfSlot(index, slot)]
    /\ UNCHANGED <<props, window, pc, results, trace, estimatedCalls, selected,
                   response, transaction, accessList, caught, outcome>>

NextUtil ==
    \/ \E a \in Tokens, b \in Tokens : probeGenerateAccessList(AmmAddresses(a, b))
    \/ \E a \in AddressStrings \cup {"0", "x"}, b \in AddressStrings \cup {"0", "x"},
          h \in {"undefined", PAIR_INIT_CODE_HASH} : probeGetPair(a, b, h)
    \/ \E a \in Tokens, b \in Tokens, slot \in {"0x1", "0x2"} :
          probeGetNestedStorageKey(a, b, slot)
    \/ \E index \in 0..MaxIndex, slot \in SlotHashes : probeGetArrayItemKey(index, slot)

SpecUtil == InitUtil /\ [][NextUtil]_vars

(***************************************************************************)
(* Properties                                                              *)
(***************************************************************************)
ProbeIs(fn) == "fn" \in DOMAIN probe /\ probe.fn = fn

IsEvent(e, ev, method) == e.ev = ev /\ e.method = method

\* position in the trace at which candidate i's promise chain settled
SettledAt(i) ==
    CHOOSE k \in DOMAIN trace :
        /\ trace[k].ix = i
        /\ \/ IsEvent(trace[k], "resolve", "estimateGas")
           \/ IsEvent(trace[k], "resolve", "callStatic")
           \/ IsEvent(trace[k], "reject", "callStatic")

Min(S) == CHOOSE x \in S : \A y \in S : x <= y
Max(S) == CHOOSE x \in S : \A y \in S : x >= y

ViableIndices(list) ==
    { i \in 1..Len(list) :
        /\ "gasEstimate" \in DOMAIN list[i]
        /\ (i = Len(list) \/ "gasEstimate" \in DOMAIN list[i + 1]) }

\* C1: the selector picks the smallest index i whose outcome is a Success and
\* that is the last index or is followed by a Success, and picks nothing when
\* there is no such index. Indices are 1-based here (0: nothing selected), so
\* [Success, Success] selects 1, [Failure, Success] selects 2 and
\* [Success, Failure] selects nothing.
C1_SelectorRule ==
    ProbeIs("find") =>
        LET list == probe.in
            viable == ViableIndices(list)
        IN  /\ viable = {} => probe.out = 0
            /\ viable # {} => probe.out = Min(viable)
            /\ (Len(list) = 2 /\ IsSuccess(list[1]) /\ IsSuccess(list[2])) => probe.out = 1
            /\ (Len(list) = 2 /\ IsFailure(list[1]) /\ IsSuccess(list[2])) => probe.out = 2
            /\ (Len(list) = 2 /\ IsSuccess(list[1]) /\ IsFailure(list[2])) => probe.out = 0

C1_Witness ==
    /\ ProbeIs("find")
    /\ Len(probe.in) = 4
    /\ IsSuccess(probe.in[1]) /\ IsFailure(probe.in[2])
    /\ IsSuccess(probe.in[3]) /\ IsSuccess(probe.in[4])
    /\ probe.out = 3

FailureIndices(list) == { i \in 1..Len(list) : "error" \in DOMAIN list[i] }

\* C2: when nothing is selected, onSwap throws the error of the Failure with
\* the highest candidate index if there is a Failure, and the generic
\* 'none of the calls threw an error' error otherwise.
C2_NoViableCandidateError ==
    (pc = "done" /\ selected = Undefined) =>
        /\ outcome.kind = "threw"
        /\ IF FailureIndices(estimatedCalls) # {}
           THEN outcome.error = estimatedCalls[Max(FailureIndices(estimatedCalls))].error
           ELSE outcome.error.message =
                    "Unexpected error. Please contact support: none of the calls threw an error"

\* both candidates failed with different messages, the second settled first
C2_Witness ==
    /\ pc = "done" /\ selected = Undefined
    /\ Len(estimatedCalls) = 2
    /\ IsFailure(estimatedCalls[1]) /\ IsFailure(estimatedCalls[2])
    /\ estimatedCalls[1].error # estimatedCalls[2].error
    /\ SettledAt(2) < SettledAt(1)
    /\ outcome = Threw(estimatedCalls[2].error)

\* C3: a signing or broadcast rejection with code 4001 ends the invocation
\* with the error 'Transaction rejected.'
C3_UserRejectedSurfaces ==
    \A k \in DOMAIN trace :
        ( /\ trace[k].ev = "reject"
          /\ trace[k].method \in {"eth_sign", "sendTransaction"}
          /\ trace[k].error.code = 4001 )
        => outcome = Threw(Error("Transaction rejected."))

\* C4: an error other than wallet rejection after selection ends the
\* invocation with the error 'Swap failed: <underlying message>'
C4_UnexpectedFailureSurfaces ==
    /\ \A k \in DOMAIN trace :
        ( /\ trace[k].ev = "reject"
          /\ trace[k].method \in {"populateTransaction", "eth_getTransactionCount",
                                  "eth_sign", "sendTransaction"}
          /\ trace[k].error.code # 4001 )
        => outcome = Threw(Error("Swap failed: " \o trace[k].error.message))
    /\ (caught # None /\ "code" \notin DOMAIN caught)
        => outcome = Threw(Error("Swap failed: " \o caught.message))

\* C5: the outcome list has one outcome per candidate, outcome i comes from
\* candidate i whatever the order of completion, and selection does not run
\* before every candidate has its outcome.
C5_FanInAligned ==
    /\ pc # "idle" => Len(results) = Len(swapCalls)
    /\ \A i \in DOMAIN results :
          ~IsPending(results[i]) =>
              /\ results[i].call = swapCalls[i]
              /\ \E k \in DOMAIN trace :
                    /\ IsEvent(trace[k], "request", "estimateGas") /\ trace[k].ix = i
                    /\ trace[k].methodName = results[i].call.parameters.methodName
                    /\ trace[k].args = results[i].call.parameters.args
              /\ IsSuccess(results[i]) =>
                    \E k \in DOMAIN trace :
                        /\ IsEvent(trace[k], "resolve", "estimateGas") /\ trace[k].ix = i
                        /\ trace[k].value = results[i].gasEstimate
    /\ pc \notin {"idle", "estimating"} =>
          /\ estimatedCalls = results
          /\ Len(estimatedCalls) = Len(swapCalls)
          /\ \A i \in DOMAIN estimatedCalls : ~IsPending(estimatedCalls[i])
    /\ (selected # None \/ outcome.kind # "pending") =>
          \A i \in 1..Len(swapCalls) : i \in DOMAIN results /\ ~IsPending(results[i])

\* the first candidate's estimation failed and its simulation settled last
C5_Witness ==
    /\ pc \notin {"idle", "estimating"}
    /\ Len(estimatedCalls) = 2
    /\ IsFailure(estimatedCalls[1]) /\ IsSuccess(estimatedCalls[2])
    /\ SettledAt(2) < SettledAt(1)
    /\ estimatedCalls[1].call = swapCalls[1] /\ estimatedCalls[2].call = swapCalls[2]

\* C6: per candidate, the simulated call is requested only after that
\* candidate's estimation was rejected, never when it resolved, with the same
\* method, arguments and options; the outcome is a Success exactly when the
\* estimation resolved; a simulated call that resolves gives a Failure with
\* the generic 'Unexpected issue with estimating the gas' message.
C6_SimulateOnFailure ==
    /\ \A k \in DOMAIN trace :
          IsEvent(trace[k], "request", "callStatic") =>
              /\ \E j \in 1..(k - 1) :
                    IsEvent(trace[j], "reject", "estimateGas") /\ trace[j].ix = trace[k].ix
              /\ ~\E j \in DOMAIN trace :
                    IsEvent(trace[j], "resolve", "estimateGas") /\ trace[j].ix = trace[k].ix
              /\ \E j \in 1..(k - 1) :
                    /\ IsEvent(trace[j], "request", "estimateGas") /\ trace[j].ix = trace[k].ix
                    /\ trace[j].methodName = trace[k].methodName
                    /\ trace[j].args = trace[k].args
                    /\ trace[j].options = trace[k].options
    /\ \A i \in DOMAIN results :
          ~IsPending(results[i]) =>
              ( "gasEstimate" \in DOMAIN results[i]
                <=> \E j \in DOMAIN trace :
                        IsEvent(trace[j], "resolve", "estimateGas") /\ trace[j].ix = i )
    /\ \A j \in DOMAIN trace :
          IsEvent(trace[j], "resolve", "callStatic") =>
              /\ "gasEstimate" \notin DOMAIN results[trace[j].ix]
              /\ results[trace[j].ix].error.message =
                    "Unexpected issue with estimating the gas. Please try again."

\* a candidate with a value option whose simulation resolved after its estimation was rejected
C6_Witness ==
    \E j \in DOMAIN trace :
        /\ IsEvent(trace[j], "resolve", "callStatic")
        /\ \E k \in 1..(j - 1) :
              /\ IsEvent(trace[k], "request", "callStatic") /\ trace[k].ix = trace[j].ix
              /\ trace[k].options.fields = {"value"}
        /\ IsFailure(results[trace[j].ix])
        /\ results[trace[j].ix].error.message =
              "Unexpected issue with estimating the gas. Please try again."

\* the message of candidate ix's outcome after its simulated call was rejected with reason
ClassifiedAs(k) == results[trace[k].ix].error.message

C7_SlippageText ==
    "This transaction will not succeed either due to price movement or fee on transfer. Try increasing your slippage tolerance."

C7_GenericText(reason) ==
    "The transaction cannot succeed due to error: " \o reason
        \o ". This is probably an issue with one of the tokens you are swapping."

\* C7 as stated: a reason '<any prefix>: INSUFFICIENT_OUTPUT_AMOUNT' or
\* '<any prefix>: EXCESSIVE_INPUT_AMOUNT' gives the slippage message, every
\* other reason the generic message embedding it.
C7_AnyPrefixClassified ==
    \A k \in DOMAIN trace :
        IsEvent(trace[k], "reject", "callStatic") =>
            LET reason == trace[k].error.reason
            IN  ClassifiedAs(k) =
                    IF \E p \in ReasonPrefixes :
                          \/ reason = p \o ": INSUFFICIENT_OUTPUT_AMOUNT"
                          \/ reason = p \o ": EXCESSIVE_INPUT_AMOUNT"
                    THEN C7_SlippageText
                    ELSE C7_GenericText(reason)

\* C7 (amended): exactly the reasons 'SwapRouterV2: INSUFFICIENT_OUTPUT_AMOUNT'
\* and 'SwapRouterV2: EXCESSIVE_INPUT_AMOUNT' give the slippage message; every
\* other reason, the same names under another prefix included, gives the
\* generic message embedding that exact reason.
C7_ExactReasonClassified ==
    \A k \in DOMAIN trace :
        IsEvent(trace[k], "reject", "callStatic") =>
            LET reason == trace[k].error.reason
            IN  ClassifiedAs(k) =
                    IF \/ reason = "SwapRouterV2: INSUFFICIENT_OUTPUT_AMOUNT"
                       \/ reason = "SwapRouterV2: EXCESSIVE_INPUT_AMOUNT"
                    THEN C7_SlippageText
                    ELSE C7_GenericText(reason)

\* one candidate rejected with the router's own reason, the other with the
\* same name under another prefix
C7_Witness ==
    /\ \E k \in DOMAIN trace :
          /\ IsEvent(trace[k], "reject", "callStatic")
          /\ trace[k].error.reason = "UniswapV2Router: INSUFFICIENT_OUTPUT_AMOUNT"
          /\ ClassifiedAs(k) = C7_GenericText("UniswapV2Router: INSUFFICIENT_OUTPUT_AMOUNT")
    /\ \E k \in DOMAIN trace :
          /\ IsEvent(trace[k], "reject", "callStatic")
          /\ trace[k].error.reason = "SwapRouterV2: INSUFFICIENT_OUTPUT_AMOUNT"
          /\ ClassifiedAs(k) = C7_SlippageText

\* C8: the gas limit of the transaction that is signed and broadcast is the
\* selected candidate's estimate plus the 10% margin, and not below the estimate
C8_SignedGasLimitHasMargin ==
    \A k \in DOMAIN trace :
        IsEvent(trace[k], "request", "sendTransaction") =>
            LET tx == trace[k].params[1].transaction
            IN  /\ tx.gasLimit = (selected.gasEstimate * 11000) \div 10000
                /\ tx.gasLimit >= selected.gasEstimate

\* C9: calculateGasMargin(v) is floor(v * 11000 / 10000) for v >= 0, hence
\* at least v, and calculateGasMargin(100000) is 110000
C9_GasMargin ==
    ProbeIs("calculateGasMargin") =>
        /\ probe.out * 10000 <= probe.in * 11000
        /\ probe.in * 11000 < (probe.out + 1) * 10000
        /\ probe.out >= probe.in
        /\ probe.in = 100000 => probe.out = 110000

C9_Witness ==
    ProbeIs("calculateGasMargin") /\ probe.in = 100000 /\ probe.out = 110000

AllInputsPresent ==
    /\ props.trade # None
    /\ props.account # None
    /\ props.library
    /\ props.chainId
    /\ props.deadline # None
    /\ (props.recipientAddressOrName # None => props.recipientAddress # None)

EstimateRequests == SelectSeq(trace, LAMBDA e : IsEvent(e, "request", "estimateGas"))

PlainMethods ==
    { "swapExactETHForTokens", "swapExactTokensForETH", "swapExactTokensForTokens",
      "swapETHForExactTokens", "swapTokensForExactETH", "swapTokensForExactTokens" }

\* C10: with all inputs present an exact-input trade gives 2 candidates, the
\* plain one first and its fee-on-transfer variant second, and an
\* exact-output trade gives the plain candidate only
C10_EncoderCandidates ==
    (pc # "idle" /\ AllInputsPresent) =>
        /\ Len(results) = (IF props.trade.tradeType = "EXACT_INPUT" THEN 2 ELSE 1)
        /\ Len(EstimateRequests) = Len(results)
        /\ EstimateRequests[1].ix = 1
        /\ EstimateRequests[1].methodName \in PlainMethods
        /\ props.trade.tradeType = "EXACT_INPUT" =>
              /\ EstimateRequests[2].ix = 2
              /\ EstimateRequests[2].methodName =
                    EstimateRequests[1].methodName \o "SupportingFeeOnTransferTokens"
              /\ EstimateRequests[2].args = EstimateRequests[1].args

C10_Witness ==
    /\ pc = "estimating" /\ AllInputsPresent
    /\ props.trade.tradeType = "EXACT_INPUT"
    /\ Len(results) = 2
    /\ EstimateRequests[1].methodName = "swapExactTokensForTokens"
    /\ EstimateRequests[2].methodName = "swapExactTokensForTokensSupportingFeeOnTransferTokens"

\* one of the inputs the invalid-parameters check is about is missing
MissingParameter ==
    \/ props.trade = None
    \/ props.account = None
    \/ Recipient(props) = None
    \/ props.deadline = None

\* C11: whenever trade, account, recipient or deadline is missing, the hook
\* offers no callback (its state is not VALID), so onSwap never starts and no
\* request is ever issued, and the encoder returns the empty candidate list.
C11_InvalidParametersNoCallback ==
    MissingParameter =>
        /\ SwapCallbackState(props) # "VALID"
        /\ pc = "idle"
        /\ trace = << >>
        /\ swapCalls = << >>

\* the candidate carries a native value that is present and nonzero
HasNativeValue(call) == call.parameters.value # "" /\ ~isZero(call.parameters.value)

RequestsOf(method) == { k \in DOMAIN trace : IsEvent(trace[k], "request", method) }
RepliesOf(method) ==
    { k \in DOMAIN trace : IsEvent(trace[k], "resolve", method) \/ IsEvent(trace[k], "reject", method) }
RejectsOf(method) == { k \in DOMAIN trace : IsEvent(trace[k], "reject", method) }

WalletMethods == {"eth_getTransactionCount", "eth_requestAccounts", "eth_sign", "sendTransaction"}

\* C12: the value field is set on the estimation options, on the populated
\* transaction and on the broadcast transaction only when the candidate's
\* native value is present and nonzero; for a selected candidate whose native
\* value is absent or zero, an invocation in which no request was rejected
\* still ends with a transaction without value field signed and broadcast.
C12_ValueOnlyWhenNonzero ==
    /\ \A k \in RequestsOf("estimateGas") \cup RequestsOf("callStatic") :
           ("value" \in trace[k].options.fields) <=> HasNativeValue(swapCalls[trace[k].ix])
    /\ \A k \in RequestsOf("populateTransaction") :
           ("value" \in DOMAIN trace[k].overrides) <=> HasNativeValue(selected.call)
    /\ \A k \in RequestsOf("sendTransaction") :
           ("value" \in DOMAIN trace[k].params[1].transaction) <=> HasNativeValue(selected.call)
    /\ ( /\ pc = "done"
         /\ IsSuccess(selected)
         /\ ~HasNativeValue(selected.call)
         /\ window.ethereum
         /\ \A m \in WalletMethods \cup {"populateTransaction"} : RejectsOf(m) = {} )
       => \E k \in RequestsOf("sendTransaction") :
              /\ "value" \notin DOMAIN trace[k].params[1].transaction
              /\ \E j \in DOMAIN trace : j > k /\ IsEvent(trace[j], "resolve", "sendTransaction")

\* C13: generateAccessList is deterministic and fixed-shape: two invocations
\* with the same ammAddresses, whatever was invoked between them, end the same
\* way with the same list, and every list returned has exactly 4 entries whose
\* addresses are, in order, the pair address of (address1, address2),
\* address1, address2 and the factory address.
C13_AccessListDeterministicShape ==
    ProbeIs("generateAccessList") =>
        /\ \A i \in DOMAIN probe.calls : \A j \in DOMAIN probe.calls :
               probe.calls[i].in = probe.calls[j].in =>
                   /\ probe.calls[i].threw = probe.calls[j].threw
                   /\ probe.calls[i].out = probe.calls[j].out
        /\ \A i \in DOMAIN probe.calls :
               LET in == probe.calls[i].in
                   out == probe.calls[i].out
               IN  ~probe.calls[i].threw =>
                       /\ Len(out) = 4
                       /\ out[1][1] = getPair(in.address1, in.address2,
                                              in.factoryAddress, in.codeHash)
                       /\ out[2][1] = in.address1
                       /\ out[3][1] = in.address2
                       /\ out[4][1] = in.factoryAddress

\* the same tokens (one of them without a known code hash) given to the first
\* and the third invocation, other tokens to the second, all three returning
C13_Witness ==
    /\ ProbeIs("generateAccessList")
    /\ Len(probe.calls) = 3
    /\ probe.calls[1].in = probe.calls[3].in
    /\ probe.calls[2].in # probe.calls[1].in
    /\ probe.calls[1].in.address1 = WETH
    /\ probe.calls[1].in.address2 = TKN
    /\ \A i \in 1..3 : ~probe.calls[i].threw
    /\ Len(probe.calls[3].out) = 4

\* C14: every access list generateAccessList returns is well-formed: each
\* entry has a defined address (never an underivable pair address), every
\* element of its slot list is a defined key, and a token entry carries the
\* code-hash element exactly when the token's code hash is known.
C14_AccessListWellFormed ==
    \A e \in DOMAIN accessList :
        /\ accessList[e][1] \notin {"null", "undefined"}
        /\ \A k \in DOMAIN accessList[e][2] : accessList[e][2][k] # "undefined"
        /\ e \in {2, 3} =>
               (Len(accessList[e][2]) = 6 <=> accessList[e][1] \in DOMAIN window.codeHashMap)

\* (slot + index) mod 2^256 as 32 big-endian bytes, for a 32-byte slot
WrappedSum(slot, index) ==
    LET sum == BigNumberAdd(slot, index)
    IN  SubSeq(sum, Len(sum) - 31, Len(sum))

\* C15: getArrayItemKey(index, slotOfArray) returns the 32-byte key
\* (keccak256(slotOfArray) + index) mod 2^256 for every index >= 0: the
\* addition wraps at 256 bits and the result has the same width, 32 bytes,
\* for index = 0 and for index > 0.
C15_ArrayItemKeyWraps ==
    ProbeIs("getArrayItemKey") =>
        /\ Len(probe.out) = 32
        /\ probe.out = WrappedSum(probe.in.slot, probe.in.index)

\* C16: the pair address does not depend on the order of the two tokens:
\* getPair(tokenA, tokenB, factory, codeHash) = getPair(tokenB, tokenA,
\* factory, codeHash), whether an address is derived or not.
C16_PairOrderIndependent ==
    ProbeIs("getPair") => probe.out = probe.swapped

\* an address derived for two different tokens given in descending order
C16_Witness ==
    /\ ProbeIs("getPair")
    /\ probe.in[1] = WETH
    /\ probe.in[2] = DAI
    /\ probe.in[4] = PAIR_INIT_CODE_HASH
    /\ probe.out \notin {"null", "undefined"}
    /\ probe.out = probe.swapped

\* C17: getNestedStorageKey(a, b, slot) is hash(b, hash(a, slot)); with a
\* collision-free hash the key of (a, b) differs from the key of (b, a)
\* whenever a # b, so the two directional factory keys of a returned access
\* list (its fourth entry's second and third slot) differ whenever
\* address1 # address2.
C17_NestedKeyDirectional ==
    /\ ProbeIs("getNestedStorageKey") =>
           /\ probe.out = solidityKeccak256(probe.in[2], solidityKeccak256(probe.in[1], probe.in[3]))
           /\ probe.in[1] # probe.in[2] => probe.out # probe.swapped
    /\ ProbeIs("generateAccessList") =>
           \A i \in DOMAIN probe.calls :
               (~probe.calls[i].threw /\ probe.calls[i].in.address1 # probe.calls[i].in.address2)
                   => probe.calls[i].out[4][2][2] # probe.calls[i].out[4][2][3]

\* the key of two different tokens under the factory's mapping slot
C17_Witness ==
    /\ ProbeIs("getNestedStorageKey")
    /\ probe.in = <<WETH, DAI, "0x2">>
    /\ probe.out = "keccak(0xDAI,keccak(0xWETH,0x2))"
    /\ probe.swapped = "keccak(0xWETH,keccak(0xDAI,0x2))"

RpcMethods == {"estimateGas", "callStatic", "populateTransaction"} \cup WalletMethods

\* each request is issued at most once: per candidate for the estimation and
\* the simulated call, once at all for the others
AtMostOnce ==
    \A m \in RpcMethods : \A i \in 0..2 :
        Cardinality({ k \in RequestsOf(m) : trace[k].ix = i }) <= 1

\* C18 as stated: each candidate's estimation and simulated call, the nonce
\* query, the signing request and the broadcast are requested at most once,
\* and after a failed request no further request of the same kind (the same
\* method) is issued in the invocation.
C18_NoRequestOfKindAfterFailure ==
    /\ AtMostOnce
    /\ \A k \in DOMAIN trace : \A j \in DOMAIN trace :
           (trace[k].ev = "reject" /\ j > k /\ trace[j].ev = "request")
               => trace[j].method # trace[k].method

\* C18, amended: each request is issued at most once, and after a failed
\* request no further request of the same kind is issued for the same
\* candidate (the simulated call of another candidate may still follow);
\* after a failed populateTransaction, nonce query, account request, signing
\* request or broadcast no request at all is issued.
C18_NoRetry ==
    /\ AtMostOnce
    /\ \A k \in DOMAIN trace : \A j \in DOMAIN trace :
           (trace[k].ev = "reject" /\ j > k /\ trace[j].ev = "request")
               => /\ ~(trace[j].method = trace[k].method /\ trace[j].ix = trace[k].ix)
                  /\ trace[k].method \in {"estimateGas", "callStatic"}
                  /\ trace[j].method # "estimateGas"

\* the invocation is over, the first candidate's simulated call failed and the
\* second candidate's simulated call was requested afterwards
C18_Witness ==
    /\ pc = "done"
    /\ \E k \in RejectsOf("callStatic") : \E j \in RequestsOf("callStatic") :
           trace[k].ix = 1 /\ trace[j].ix = 2 /\ j > k

ResolvesOf(method) == { k \in DOMAIN trace : IsEvent(trace[k], "resolve", method) }

\* C19: the nonce query, the signing request and the broadcast are issued only
\* after a candidate was selected (after the populateTransaction request for
\* it; none of them when the selection found no candidate), in the order
\* nonce query, signing request, broadcast; the transaction that is broadcast
\* is the one whose hash was given to the signer, it carries the nonce the
\* nonce query returned, and the signature sent with it is the one the signer
\* returned.
C19_PipelineOrdering ==
    /\ \A m \in {"eth_getTransactionCount", "eth_sign", "sendTransaction"} :
           \A k \in RequestsOf(m) :
               /\ IsSuccess(selected)
               /\ \E p \in RequestsOf("populateTransaction") :
                      p < k /\ trace[p].methodName = selected.call.parameters.methodName
    /\ selected = Undefined => \A m \in WalletMethods : RequestsOf(m) = {}
    /\ \A s \in RequestsOf("eth_sign") :
           \E n \in RequestsOf("eth_getTransactionCount") :
               \E r \in ResolvesOf("eth_getTransactionCount") : n < r /\ r < s
    /\ \A b \in RequestsOf("sendTransaction") :
           \E n \in ResolvesOf("eth_getTransactionCount") :
               \E s \in RequestsOf("eth_sign") : \E r \in ResolvesOf("eth_sign") :
                   /\ n < s /\ s < r /\ r < b
                   /\ trace[s].params[2] = [keccak256 |-> trace[b].params[1].transaction]
                   /\ trace[b].params[1].signature = trace[r].value
                   /\ trace[n].value = "0x0" => trace[b].params[1].transaction.nonce = 0
                   /\ trace[n].value = "0x1f" => trace[b].params[1].transaction.nonce = 31

\* a transaction with the fetched nonce 0x1f was signed, broadcast and accepted
C19_Witness ==
    /\ pc = "done"
    /\ ResolvesOf("sendTransaction") # {}
    /\ \E n \in ResolvesOf("eth_getTransactionCount") : trace[n].value = "0x1f"
    /\ transaction.nonce = 31

\* C20: whenever onSwap returns instead of throwing, exactly one signed
\* transaction was sent and accepted by the broadcast call of the invocation
\* and the value returned is the hash of that transaction; it never returns
\* without a hash.
C20_ReturnsHashOfBroadcast ==
    outcome.kind = "returned" =>
        /\ outcome.value # Undefined
        /\ Cardinality(RequestsOf("sendTransaction")) = 1
        /\ \E k \in ResolvesOf("sendTransaction") :
               outcome.value = [kind |-> "hash", v |-> trace[k].value]

\* the index the selection rule picks in the array Promise.all resolved with
SelectedIndex == Min(ViableIndices(estimatedCalls))

\* the estimate the node returned for candidate i
EstimateReturnedFor(i) ==
    trace[CHOOSE k \in ResolvesOf("estimateGas") : trace[k].ix = i].value

\* C21: the transaction that is populated, signed and broadcast is built from
\* the selected candidate only: the method, the arguments and the value of the
\* populateTransaction request and of the broadcast transaction are those of
\* the candidate at the selected index, and the gas limit given to
\* populateTransaction is the margin applied to the estimate the node
\* returned for that same candidate.
C21_BuiltFromSelectedCandidate ==
    /\ \A p \in RequestsOf("populateTransaction") :
           LET call == swapCalls[SelectedIndex].parameters
           IN  /\ trace[p].methodName = call.methodName
               /\ trace[p].args = call.args
               /\ HasNativeValue(swapCalls[SelectedIndex]) => trace[p].overrides.value = call.value
               /\ ~HasNativeValue(swapCalls[SelectedIndex]) => "value" \notin DOMAIN trace[p].overrides
               /\ trace[p].overrides.gasLimit =
                      (EstimateReturnedFor(SelectedIndex) * 11000) \div 10000
    /\ \A b \in RequestsOf("sendTransaction") :
           LET call == swapCalls[SelectedIndex].parameters
               tx == trace[b].params[1].transaction
           IN  /\ tx.to = swapCalls[SelectedIndex].contract
               /\ tx.data = [methodName |-> call.methodName, args |-> call.args]
               /\ tx.value = call.value

\* two candidates with different estimates, the first selected, its
\* transaction broadcast and accepted
C21_Witness ==
    /\ pc = "done"
    /\ Len(estimatedCalls) = 2
    /\ IsSuccess(estimatedCalls[1]) /\ IsSuccess(estimatedCalls[2])
    /\ estimatedCalls[1].gasEstimate # estimatedCalls[2].gasEstimate
    /\ SelectedIndex = 1
    /\ outcome.kind = "returned" /\ outcome.value # Undefined

NoneThrewMessage == "Unexpected error. Please contact support: none of the calls threw an error"

\* C22: onSwap raises the generic 'none of the calls threw an error' error if
\* and only if the candidate list is empty; for a non-empty list either a
\* candidate is selected or the error raised is that of one of the Failures
\* of the list.
C22_GenericErrorIffEmpty ==
    pc = "done" =>
        /\ (outcome.kind = "threw" /\ outcome.error.message = NoneThrewMessage)
               <=> swapCalls = << >>
        /\ swapCalls # << >> =>
               \/ IsSuccess(selected)
               \/ /\ outcome.kind = "threw"
                  /\ \E i \in FailureIndices(estimatedCalls) :
                         outcome.error = estimatedCalls[i].error

\* the callback was offered and called with an empty candidate list
C22_Witness ==
    /\ pc = "done"
    /\ swapCalls = << >>
    /\ estimatedCalls = << >>
    /\ outcome = Threw(Error(NoneThrewMessage))

\* C23: if every issued request is eventually answered, an onSwap invocation
\* that was started eventually ends, by returning or by throwing; and the
\* invocation is past the estimation step (selection has run) only when every
\* candidate's estimation, or its follow-up simulated call, has completed:
\* there is no timeout that lets the selection run without them.
C23_Termination ==
    /\ (pc # "idle") ~> (pc = "done" /\ outcome.kind \in {"returned", "threw"})
    /\ [](pc \notin {"idle", "estimating"} =>
              /\ selected # None
              /\ \A i \in DOMAIN results : ~IsPending(results[i]))
    /\ []((\E i \in DOMAIN results : IsPending(results[i])) => selected = None)

\* an invocation with two candidates that ended after a simulated call failed
C23_Witness ==
    /\ pc = "done"
    /\ Len(results) = 2
    /\ RejectsOf("callStatic") # {}
    /\ ResolvesOf("eth_sign") # {}
    /\ outcome.kind = "returned"

====
